---- MODULE Spec2Model ----
(***************************************************************************)
(* Model of blueprint/check.py, the markdown link validator: the anchor    *)
(* folder, the heading extractor, the link extractor with its fence state, *)
(* the link resolver and the main loop that tallies the results.           *)
(*                                                                         *)
(* Text is modelled character by character: a string is a sequence of      *)
(* one-character strings, a document is a sequence of lines, and the file  *)
(* system is a function from paths to entries.                             *)
(***************************************************************************)
EXTENDS Integers, Sequences, FiniteSets, TLC

---------------------------------------------------------------------------
(* Bounds of the model *)

\* Document A is drawn from every document of at most this many lines of the
\* line library (and from a few longer scenario documents).
MaxLines == 2

\* Longest heading string drawn for the anchor folder.
MaxHeadingLen == 4

---------------------------------------------------------------------------
(* Characters and the str methods the code uses *)

UpperLetters ==
    <<"A","B","C","D","E","F","G","H","I","J","K","L","M",
      "N","O","P","Q","R","S","T","U","V","W","X","Y","Z">>

LowerLetters ==
    <<"a","b","c","d","e","f","g","h","i","j","k","l","m",
      "n","o","p","q","r","s","t","u","v","w","x","y","z">>

Digits == {"0","1","2","3","4","5","6","7","8","9"}

\* What str.strip() removes and what the regex class \s matches.
Whitespace == {" ", "\t"}

LowerSet == {LowerLetters[i] : i \in 1..26}

\* str.lower() on one character.
LowerChar(c) ==
    IF \E i \in 1..26 : UpperLetters[i] = c
    THEN LowerLetters[CHOOSE i \in 1..26 : UpperLetters[i] = c]
    ELSE c

\* str.lower()
Lower(s) == [i \in 1..Len(s) |-> LowerChar(s[i])]

\* s[n:] for n >= 0
DropFirst(s, n) == SubSeq(s, n + 1, Len(s))

\* str.startswith(prefix)
StartsWith(s, prefix) ==
    /\ Len(prefix) <= Len(s)
    /\ SubSeq(s, 1, Len(prefix)) = prefix

\* str.endswith(suffix)
EndsWith(s, suffix) ==
    /\ Len(suffix) <= Len(s)
    /\ SubSeq(s, Len(s) - Len(suffix) + 1, Len(s)) = suffix

\* sub in s
Contains(s, sub) ==
    \E i \in 1..(Len(s) - Len(sub) + 1) : SubSeq(s, i, i + Len(sub) - 1) = sub

\* s.count(c) for a one-character c
Count(s, c) == Cardinality({i \in 1..Len(s) : s[i] = c})

\* Index of the first occurrence of c in s at or after position from, 0 if none.
IndexFrom(s, c, from) ==
    IF \E i \in from..Len(s) : s[i] = c
    THEN CHOOSE i \in from..Len(s) : s[i] = c /\ \A j \in from..(i - 1) : s[j] # c
    ELSE 0

\* s.lstrip(chars): drop the leading run of characters of cs.
LStripSet(s, cs) ==
    IF \A i \in 1..Len(s) : s[i] \in cs
    THEN <<>>
    ELSE DropFirst(s, (CHOOSE i \in 1..Len(s) :
                          s[i] \notin cs /\ \A j \in 1..(i - 1) : s[j] \in cs) - 1)

\* s.rstrip(chars): drop the trailing run of characters of cs.
RStripSet(s, cs) ==
    IF \A i \in 1..Len(s) : s[i] \in cs
    THEN <<>>
    ELSE SubSeq(s, 1, CHOOSE i \in 1..Len(s) :
                          s[i] \notin cs /\ \A j \in (i + 1)..Len(s) : s[j] \in cs)

\* s.strip(chars)
StripSet(s, cs) == RStripSet(LStripSet(s, cs), cs)

\* s.strip()
Strip(s) == StripSet(s, Whitespace)

\* re.sub(r'C+', rep, s) for a character class C and a one-character rep:
\* every maximal run of characters of cs becomes one rep.
RECURSIVE SubRuns(_, _, _)
SubRuns(s, cs, rep) ==
    IF s = <<>> THEN <<>>
    ELSE IF Head(s) \in cs
         THEN <<rep>> \o SubRuns(LStripSet(s, cs), cs, rep)
         ELSE <<Head(s)>> \o SubRuns(Tail(s), cs, rep)

---------------------------------------------------------------------------
(* generate_github_anchor *)

\* The characters re.sub(r'[^a-z0-9\s-]', '', anchor) keeps.
AnchorChars == LowerSet \cup Digits \cup Whitespace \cup {"-"}

\* The variant with the whitespace and hyphen substitutions exchanged.
generate_github_anchor_swapped(heading) ==
    LET a1 == Lower(heading)
        a2 == SelectSeq(a1, LAMBDA c : c \in AnchorChars)
        a3 == SubRuns(a2, {"-"}, "-")
        a4 == SubRuns(a3, Whitespace, "-")
    IN  StripSet(a4, {"-"})

\* The variant that forgets the final strip('-').
generate_github_anchor_nostrip(heading) ==
    LET a1 == Lower(heading)
        a2 == SelectSeq(a1, LAMBDA c : c \in AnchorChars)
        a3 == SubRuns(a2, Whitespace, "-")
    IN  SubRuns(a3, {"-"}, "-")

generate_github_anchor(heading) ==
    LET a1 == Lower(heading)
        a2 == SelectSeq(a1, LAMBDA c : c \in AnchorChars)
        a3 == SubRuns(a2, Whitespace, "-")
        a4 == SubRuns(a3, {"-"}, "-")
    IN  StripSet(a4, {"-"})

---------------------------------------------------------------------------
(* String constants of the code *)

S_http == <<"h","t","t","p",":","/","/">>
S_https == <<"h","t","t","p","s",":","/","/">>
S_dot_slash == <<".","/">>
S_blueprint == <<"b","l","u","e","p","r","i","n","t">>
\* The backtick character (written by name: the lexer pairs a literal one with
\* a later quote).
Backtick == "BACKTICK"

S_fence == <<Backtick, Backtick, Backtick>>
S_indent == <<" "," "," "," ">>
S_const == <<"c","o","n","s","t">>
S_std == <<"s","t","d",":",":">>
S_scope == <<":",":">>
S_httpword == <<"h","t","t","p">>
S_this == <<"t","h","i","s">>
S_md == <<".","m","d">>

\* The suffixes of line 98.
ImageExtensions ==
    { <<".","s","v","g">>, <<".","p","n","g">>, <<".","j","p","g">>,
      <<".","j","p","e","g">>, <<".","g","i","f">>, <<".","w","e","b","p">> }

---------------------------------------------------------------------------
(* State *)

VARIABLES
    fs,                   \* the file system: path -> [kind, readable, content, decoded]
    pc,                   \* position of main()
    md_files,             \* list(blueprint_dir.glob('*.md'))
    file_idx,             \* index in md_files of the document being processed
    line_num,             \* 1-based number of the next line to scan
    in_code_block,        \* extract_links_from_file's fence toggle
    links,                \* extract_links_from_file's result list
    link_idx,             \* index in links of the next link to validate
    all_link_results,
    total_links,
    valid_links,
    invalid_links,
    missing_anchors,
    external_unreachable,
    report,               \* what was written to link_report.json, or NoReport
    exit_code,            \* "running", then the exit status: "success" (0) or "failure" (1)
    candidates,           \* history: every link returned by the extractor, in order
    positions,            \* history: where in its document each extracted link starts
    heading,              \* anchor folder run: the input
    anchor,               \* anchor folder run: generate_github_anchor(heading)
    anchor2,              \* anchor folder run: the fold of anchor
    fold_pc               \* anchor folder run: position

mainVars ==
    <<fs, pc, md_files, file_idx, line_num, in_code_block, links, link_idx,
      all_link_results, total_links, valid_links, invalid_links, missing_anchors,
      external_unreachable, report, exit_code, candidates, positions>>

foldVars == <<heading, anchor, anchor2, fold_pc>>

vars == <<mainVars, foldVars>>

---------------------------------------------------------------------------
(* The file system and pathlib *)

\* s.split(c) for a one-character separator.
RECURSIVE Split(_, _)
Split(s, c) ==
    LET i == IndexFrom(s, c, 1)
    IN  IF i = 0 THEN <<s>>
        ELSE <<SubSeq(s, 1, i - 1)>> \o Split(DropFirst(s, i), c)

RECURSIVE Join(_, _)
Join(parts, c) ==
    IF parts = <<>> THEN <<>>
    ELSE IF Len(parts) = 1 THEN parts[1]
    ELSE parts[1] \o <<c>> \o Join(Tail(parts), c)

\* str(Path('blueprint') / file_part): pathlib drops empty and '.' components,
\* and an absolute right operand replaces the left one.
PathJoin(file_part) ==
    LET parts == SelectSeq(Split(file_part, "/"),
                           LAMBDA q : q # <<>> /\ q # <<".">>)
    IN  IF StartsWith(file_part, <<"/">>)
        THEN <<"/">> \o Join(parts, "/")
        ELSE Join(<<S_blueprint>> \o parts, "/")

\* Path.exists()
Exists(path) == path \in DOMAIN fs

\* open(path, 'r') and the read succeed.
Readable(path) ==
    /\ path \in DOMAIN fs
    /\ fs[path].kind = "file"
    /\ fs[path].readable

\* blueprint_dir.glob('*.md'): the entries directly under blueprint/ named *.md
Glob ==
    { p \in DOMAIN fs :
        /\ StartsWith(p, S_blueprint \o <<"/">>)
        /\ Count(DropFirst(p, Len(S_blueprint) + 1), "/") = 0
        /\ EndsWith(p, S_md) }

---------------------------------------------------------------------------
(* extract_headings, anchor_exists *)

\* Lines 34-35: the stripped line without its leading '#' run and the
\* whitespace after it, right-stripped.
HeadingText(line) ==
    RStripSet(LStripSet(LStripSet(Strip(line), {"#"}), Whitespace), Whitespace)

\* Lines 30-31: the lines "for line in f" yields before it ends or raises.
\* None when open() fails.  The text reader decodes the file buffer by
\* buffer, so the lines of the buffers before an undecodable one are yielded
\* before the exception.
LinesRead(file_path) ==
    IF file_path \in DOMAIN fs /\ fs[file_path].kind = "file"
    THEN SubSeq(fs[file_path].content, 1, fs[file_path].decoded)
    ELSE <<>>

\* Lines 32-37 on a sequence of lines.
HeadingsOf(lines) ==
    LET marked == SelectSeq(lines, LAMBDA l : StartsWith(Strip(l), <<"#">>))
        texts == [i \in 1..Len(marked) |-> HeadingText(marked[i])]
    IN  SelectSeq(texts, LAMBDA h : h # <<>>)

\* The variant that leaves out the headings inside fenced code blocks.
extract_headings_fenced(file_path) ==
    LET lines == LinesRead(file_path)
        fenced(n) == Cardinality({m \in 1..n :
                        StartsWith(Strip(lines[m]), S_fence)}) % 2 = 1
        outside == {n \in 1..Len(lines) : ~fenced(n)}
        nth(k) == CHOOSE n \in outside : Cardinality({m \in outside : m < n}) = k - 1
    IN  HeadingsOf([k \in 1..Cardinality(outside) |-> lines[nth(k)]])

\* The headings appended before the iteration ends or raises: the except
\* clause of line 38 only prints, and line 40 returns the list as it stands.
extract_headings(file_path) == HeadingsOf(LinesRead(file_path))

\* The variant that compares the heading itself, not its fold.
anchor_exists_unfolded(file_path, anchor_name) ==
    LET headings == extract_headings(file_path)
    IN  \E i \in 1..Len(headings) : headings[i] = anchor_name

anchor_exists(file_path, anchor_name) ==
    LET headings == extract_headings(file_path)
    IN  \E i \in 1..Len(headings) :
            generate_github_anchor(headings[i]) = anchor_name

---------------------------------------------------------------------------
(* validate_link *)

NoSuggestion == [kind |-> "none", name |-> <<>>, path |-> <<>>]

\* Lines 68 and 92: "Anchor '#<name>' not found in <path>. ..."
AnchorNotFound(name, path) == [kind |-> "anchor-not-found", name |-> name, path |-> path]

\* Line 102: "File '<name>' does not exist in blueprint/ directory."
FileNotFound(name) == [kind |-> "file-not-found", name |-> name, path |-> <<>>]

\* Line 107: "Link format not supported. Use relative links (./file.md) ..."
FormatNotSupported == [kind |-> "format-not-supported", name |-> <<>>, path |-> <<>>]

\* Lines 57, 62, 71: which branch of validate_link takes the target.
LinkShape(link_target) ==
    IF StartsWith(link_target, S_http) \/ StartsWith(link_target, S_https)
        THEN "external"
    ELSE IF StartsWith(link_target, <<"#">>)
        THEN "anchor-only"
    ELSE IF \/ StartsWith(link_target, S_dot_slash)
            \/ Count(link_target, "/") = 0
            \/ Count(link_target, "/") = 1
        THEN "relative-file"
    ELSE "other"

\* Lines 72-81: the file part of a relative-file target.
FilePart(link_target) ==
    LET i == IndexFrom(link_target, "#", 1)
        file_part == IF i = 0 THEN link_target ELSE SubSeq(link_target, 1, i - 1)
    IN  IF StartsWith(file_part, S_dot_slash) THEN DropFirst(file_part, 2)
        ELSE file_part

\* Lines 73-77: the anchor part of a relative-file target.
AnchorPart(link_target) ==
    LET i == IndexFrom(link_target, "#", 1)
    IN  IF i = 0 THEN <<>> ELSE DropFirst(link_target, i)

\* The variant that lets every missing file pass.
MissingFileOutcome_lenient(file_part) ==
    [status |-> "valid", suggestion |-> NoSuggestion]

\* Lines 95-102: the target file does not exist.
MissingFileOutcome(file_part) ==
    IF \E ext \in ImageExtensions : EndsWith(file_part, ext)
    THEN [status |-> "valid", suggestion |-> NoSuggestion]
    ELSE [status |-> "invalid", suggestion |-> FileNotFound(file_part)]

\* The variant that looks the anchor up in the source document.
ExistingFileOutcome_source(source_file, full_file_path, anchor_part) ==
    IF anchor_part # <<>>
    THEN IF anchor_exists(source_file, anchor_part)
         THEN [status |-> "valid", suggestion |-> NoSuggestion]
         ELSE [status |-> "missing-anchor",
               suggestion |-> AnchorNotFound(anchor_part, full_file_path)]
    ELSE [status |-> "valid", suggestion |-> NoSuggestion]

\* Lines 85-94: the target file exists.
ExistingFileOutcome(source_file, full_file_path, anchor_part) ==
    IF anchor_part # <<>>
    THEN IF anchor_exists(full_file_path, anchor_part)
         THEN [status |-> "valid", suggestion |-> NoSuggestion]
         ELSE [status |-> "missing-anchor",
               suggestion |-> AnchorNotFound(anchor_part, full_file_path)]
    ELSE [status |-> "valid", suggestion |-> NoSuggestion]

\* Lines 53-107: the status and the suggestion.
LinkOutcome(source_file, link_target) ==
    LET shape == LinkShape(link_target)
    IN  IF shape = "external"
            THEN [status |-> "valid", suggestion |-> NoSuggestion]
        ELSE IF shape = "anchor-only"
            THEN LET anchor_name == DropFirst(link_target, 1)
                 IN  IF anchor_exists(source_file, anchor_name)
                     THEN [status |-> "valid", suggestion |-> NoSuggestion]
                     ELSE [status |-> "missing-anchor",
                           suggestion |-> AnchorNotFound(anchor_name, source_file)]
        ELSE IF shape = "relative-file"
            THEN LET file_part == FilePart(link_target)
                     full_file_path == PathJoin(file_part)
                 IN  IF Exists(full_file_path)
                     THEN ExistingFileOutcome(source_file, full_file_path,
                                              AnchorPart(link_target))
                     ELSE MissingFileOutcome(file_part)
        ELSE [status |-> "invalid", suggestion |-> FormatNotSupported]

validate_link(source_file, line, link_text, link_target) ==
    LET outcome == LinkOutcome(source_file, link_target)
    IN  [file |-> source_file,
         line |-> line,
         text |-> link_text,
         link |-> link_target,
         status |-> outcome.status,
         suggestion |-> outcome.suggestion]

---------------------------------------------------------------------------
(* is_likely_code_snippet, extract_links_from_file *)

is_likely_code_snippet(line, link_text, link_target) ==
    \/ Contains(line, S_fence)
    \/ StartsWith(Strip(line), S_indent)
    \/ /\ link_text \in {S_this, <<"&">>, <<"=">>}
       /\ Contains(link_target, S_const) \/ Contains(link_target, <<"&">>)
    \/ /\ Contains(link_target, S_const)
       /\ Contains(link_target, <<"&">>) \/ Contains(link_target, <<"*">>)
    \/ Contains(link_target, S_std)
    \/ Contains(link_target, S_scope) /\ ~Contains(link_target, S_httpword)
    \/ /\ Contains(link_text, <<",">>)
       /\ Contains(link_target, S_const) \/ Contains(link_target, <<"&">>)

\* re.findall(r'\[([^\]]*)\]\(([^)]*)\)', line) from position i on: the
\* non-overlapping matches, left to right, each with the column it starts at.
\* A match at i is '[', the text up to the first ']', '(' right after it, and
\* the target up to the first ')'.
RECURSIVE FindAllFrom(_, _)
FindAllFrom(line, i) ==
    IF i > Len(line) THEN <<>>
    ELSE LET j == IF line[i] = "[" THEN IndexFrom(line, "]", i + 1) ELSE 0
             k == IF j # 0 /\ j + 1 <= Len(line) /\ line[j + 1] = "("
                  THEN IndexFrom(line, ")", j + 2) ELSE 0
         IN  IF k = 0 THEN FindAllFrom(line, i + 1)
             ELSE <<[col |-> i,
                     text |-> SubSeq(line, i + 1, j - 1),
                     target |-> SubSeq(line, j + 2, k - 1)]>>
                  \o FindAllFrom(line, k + 1)

\* Lines 160-167: the matches of one line that become links.
LineMatches(line) ==
    SelectSeq(FindAllFrom(line, 1),
              LAMBDA m : /\ Strip(m.text) # <<>>
                         /\ Strip(m.target) # <<>>
                         /\ ~is_likely_code_snippet(line, m.text, m.target))

\* Lines 169-173: the dicts appended for one line.
LineLinks(line, n) ==
    LET ms == LineMatches(line)
    IN  [i \in 1..Len(ms) |->
            [line_num |-> n, text |-> ms[i].text, target |-> ms[i].target]]

\* Line 152: the stripped line starts with a fence marker.
IsFenceLine(line) == StartsWith(Strip(line), S_fence)

---------------------------------------------------------------------------
(* The documents and file systems the runs are drawn from *)

\* "## Intro"
L_heading ==
    <<"#","#"," ","I","n","t","r","o">>

\* "[See Intro](#intro)"
L_anchor_link ==
    <<"[","S","e","e"," ","I","n","t","r","o","]","(","#","i","n","t","r","o",")">>

\* "[Other](./B.md#missing)"
L_other ==
    <<"[","O","t","h","e","r","]","(",".","/","B",".","m","d","#","m","i","s","s","i","n","g",")">>

\* A fence line.
L_fence == S_fence

\* "    [x](./B.md#section-one)"
L_indented ==
    <<" "," "," "," ","[","x","]","(",".","/","B",".","m","d","#","s","e","c","t","i","o","n","-","o","n","e",")">>

\* "[m](mailto:x) [r](/etc) [u](a/b/c)"
L_shapes ==
    <<"[","m","]","(","m","a","i","l","t","o",":","x",")"," ","[","r","]","(","/","e","t","c",")"," ","[","u","]","(","a","/","b","/","c",")">>

\* "[p](./d.png) [q](./missing.md) [b](B.md) [h](http://e) [this](const Foo&)"
L_files ==
    <<"[","p","]","(",".","/","d",".","p","n","g",")"," ","[","q","]","(",".","/","m","i","s","s","i","n","g",".","m","d",")"," ","[","b","]","(","B",".","m","d",")"," ","[","h","]","(","h","t","t","p",":","/","/","e",")"," ","[","t","h","i","s","]","(","c","o","n","s","t"," ","F","o","o","&",")">>

\* "# Q [w](#intro)"
L_fenced_heading ==
    <<"#"," ","Q"," ","[","w","]","(","#","i","n","t","r","o",")">>

\* "[q](#q-wintro)"
L_link_q ==
    <<"[","q","]","(","#","q","-","w","i","n","t","r","o",")">>

\* "[s](./B.md#section-one)"
L_section_link ==
    <<"[","s","]","(",".","/","B",".","m","d","#","s","e","c","t","i","o","n","-","o","n","e",")">>

\* "## Section One"
L_section ==
    <<"#","#"," ","S","e","c","t","i","o","n"," ","O","n","e">>

\* The lines document A is made of.
LineLibrary ==
    {L_heading, L_anchor_link, L_other, L_fence, L_indented, L_shapes, L_files}

\* Every document of at most n lines of the library.
RECURSIVE DocsUpTo(_)
DocsUpTo(n) ==
    IF n = 0 THEN {<<>>}
    ELSE LET shorter == DocsUpTo(n - 1)
         IN  shorter \cup {Append(d, l) : d \in shorter, l \in LineLibrary}

\* The contents document B takes: the scenario's, one that ends inside an
\* unclosed fence, and one with a link to a heading only A has.
BDocs ==
    { <<L_section>>,
      <<L_section, L_fence, L_other>>,
      <<L_section, L_anchor_link>> }

P_A == <<"b","l","u","e","p","r","i","n","t","/","A",".","m","d">>
P_B == <<"b","l","u","e","p","r","i","n","t","/","B",".","m","d">>
P_etc == <<"/","e","t","c">>

Dir == [kind |-> "dir", readable |-> TRUE, content |-> <<>>, decoded |-> 0]

\* A file that reads whole, or (readable = FALSE) one that open() refuses.
File(content, readable) ==
    [kind |-> "file", readable |-> readable, content |-> content,
     decoded |-> IF readable THEN Len(content) ELSE 0]

\* A file that opens but holds an undecodable byte after its first k lines, in
\* a later buffer: f.read() raises, the line iteration yields k lines first.
BrokenFile(content, k) ==
    [kind |-> "file", readable |-> FALSE, content |-> content, decoded |-> k]

\* The entries outside the document root.
OutsideRoot == (P_etc :> Dir)

WithRoot == OutsideRoot @@ (S_blueprint :> Dir)

\* Longer documents for A: the scenario's; a link between two fences; a
\* heading between two fences with a link to it after them; an indented link
\* between a link into B and an unclosed fence; a heading line that carries
\* a link, between two fences, with a link to that heading after them; a link
\* to a heading B has beside a link to one it has not.
ScenarioDocs ==
    { <<L_heading, L_anchor_link, L_other>>,
      <<L_fence, L_anchor_link, L_fence>>,
      <<L_fence, L_heading, L_fence, L_anchor_link>>,
      <<L_files, L_indented, L_fence, L_shapes>>,
      <<L_fence, L_fenced_heading, L_fence, L_link_q>>,
      <<L_section_link, L_other>> }

\* The contents document A takes.
ADocs == DocsUpTo(MaxLines) \cup ScenarioDocs

\* The file systems a run starts from: no document root; an empty root; a
\* root with A alone; a root with A and B, B reading whole, refused by open()
\* or broken after its first line.
FileSystems ==
    {OutsideRoot}
    \cup {WithRoot}
    \cup {WithRoot @@ (P_A :> File(a, TRUE)) : a \in ADocs}
    \cup {WithRoot @@ (P_A :> File(a, TRUE)) @@ (P_B :> File(b, TRUE)) :
            a \in ADocs, b \in BDocs}
    \cup {WithRoot @@ (P_A :> File(a, TRUE)) @@ (P_B :> File(<<L_section>>, FALSE)) :
            a \in ADocs}
    \cup {WithRoot @@ (P_A :> File(a, TRUE))
                   @@ (P_B :> BrokenFile(<<L_section, L_anchor_link>>, 1)) :
            a \in ADocs}

\* Every ordering of a set of paths (glob promises no order).
Orderings(S) ==
    {o \in [1..Cardinality(S) -> S] : \A i, j \in 1..Cardinality(S) : i # j => o[i] # o[j]}

---------------------------------------------------------------------------
(* main *)

NoReport == [written |-> FALSE]

Init ==
    /\ fs \in FileSystems
    /\ pc = "start"
    /\ md_files = <<>>
    /\ file_idx = 0
    /\ line_num = 0
    /\ in_code_block = FALSE
    /\ links = <<>>
    /\ link_idx = 0
    /\ all_link_results = <<>>
    /\ total_links = 0
    /\ valid_links = 0
    /\ invalid_links = 0
    /\ missing_anchors = 0
    /\ external_unreachable = 0
    /\ report = NoReport
    /\ exit_code = "running"
    /\ candidates = <<>>
    /\ positions = <<>>
    /\ heading = <<>>
    /\ anchor = <<>>
    /\ anchor2 = <<>>
    /\ fold_pc = "idle"

\* Lines 259-268: the report of the counters and the results.
Report(results) ==
    [written |-> TRUE,
     total_links |-> total_links,
     valid_links |-> valid_links,
     invalid_links |-> invalid_links,
     missing_anchors |-> missing_anchors,
     external_unreachable |-> external_unreachable,
     duplicated_links |-> 0,
     links |-> results]

\* Lines 195-197: no blueprint/ directory, sys.exit(1).
MissingRoot ==
    /\ pc = "start"
    /\ ~Exists(S_blueprint)
    /\ exit_code' = "failure"
    /\ pc' = "done"
    /\ UNCHANGED <<fs, md_files, file_idx, line_num, in_code_block, links, link_idx,
                   all_link_results, total_links, valid_links, invalid_links,
                   missing_anchors, external_unreachable, report, candidates,
                   positions, foldVars>>

\* Lines 200-225: no markdown file, the empty report is written and main returns.
NoMarkdownFiles ==
    /\ pc = "start"
    /\ Exists(S_blueprint)
    /\ Glob = {}
    /\ report' = Report(<<>>)
    /\ exit_code' = "success"
    /\ pc' = "done"
    /\ UNCHANGED <<fs, md_files, file_idx, line_num, in_code_block, links, link_idx,
                   all_link_results, total_links, valid_links, invalid_links,
                   missing_anchors, external_unreachable, candidates, positions,
                   foldVars>>

\* Line 200: the markdown files, in the order glob yields them.
GlobFiles ==
    /\ pc = "start"
    /\ Exists(S_blueprint)
    /\ Glob # {}
    /\ \E order \in Orderings(Glob) : md_files' = order
    /\ file_idx' = 1
    /\ pc' = "next_file"
    /\ UNCHANGED <<fs, line_num, in_code_block, links, link_idx, all_link_results,
                   total_links, valid_links, invalid_links, missing_anchors,
                   external_unreachable, report, exit_code, candidates, positions,
                   foldVars>>

\* The variant that keeps the fence toggle of the previous document.
OpenFile_keep_toggle ==
    /\ pc = "next_file"
    /\ file_idx <= Len(md_files)
    /\ Readable(md_files[file_idx])
    /\ links' = <<>>
    /\ line_num' = 1
    /\ pc' = "scan"
    /\ UNCHANGED <<fs, md_files, file_idx, in_code_block, link_idx, all_link_results,
                   total_links, valid_links, invalid_links, missing_anchors,
                   external_unreachable, report, exit_code, candidates, positions,
                   foldVars>>

\* Lines 227-231, 142-147: the next document is opened and read.
OpenFile ==
    /\ pc = "next_file"
    /\ file_idx <= Len(md_files)
    /\ Readable(md_files[file_idx])
    /\ links' = <<>>
    /\ in_code_block' = FALSE
    /\ line_num' = 1
    /\ pc' = "scan"
    /\ UNCHANGED <<fs, md_files, file_idx, link_idx, all_link_results,
                   total_links, valid_links, invalid_links, missing_anchors,
                   external_unreachable, report, exit_code, candidates, positions,
                   foldVars>>

\* Lines 142-144, 174-177: the document cannot be read; the exception is
\* caught and the empty list returned.
OpenFileError ==
    /\ pc = "next_file"
    /\ file_idx <= Len(md_files)
    /\ ~Readable(md_files[file_idx])
    /\ links' = <<>>
    /\ link_idx' = 1
    /\ pc' = "validate"
    /\ UNCHANGED <<fs, md_files, file_idx, line_num, in_code_block, all_link_results,
                   total_links, valid_links, invalid_links, missing_anchors,
                   external_unreachable, report, exit_code, candidates, positions,
                   foldVars>>

\* Line 227: the for loop over md_files is exhausted.
AllFilesDone ==
    /\ pc = "next_file"
    /\ file_idx > Len(md_files)
    /\ pc' = "report"
    /\ UNCHANGED <<fs, md_files, file_idx, line_num, in_code_block, links, link_idx,
                   all_link_results, total_links, valid_links, invalid_links,
                   missing_anchors, external_unreachable, report, exit_code,
                   candidates, positions, foldVars>>

\* The lines of the document being scanned.
CurrentLines == fs[md_files[file_idx]].content

\* Where the links of line n of the current document start.
LinePositions(line, n) ==
    LET ms == LineMatches(line)
    IN  [i \in 1..Len(ms) |-> [doc |-> file_idx, line_num |-> n, col |-> ms[i].col]]

\* The variant that matches links inside fenced blocks too.
ScanLine_no_skip ==
    /\ pc = "scan"
    /\ line_num <= Len(CurrentLines)
    /\ LET line == CurrentLines[line_num]
       IN  IF IsFenceLine(line)
           THEN /\ in_code_block' = ~in_code_block
                /\ UNCHANGED <<links, positions>>
           ELSE /\ links' = links \o LineLinks(line, line_num)
                /\ positions' = positions \o LinePositions(line, line_num)
                /\ UNCHANGED in_code_block
    /\ line_num' = line_num + 1
    /\ UNCHANGED <<fs, pc, md_files, file_idx, link_idx, all_link_results,
                   total_links, valid_links, invalid_links, missing_anchors,
                   external_unreachable, report, exit_code, candidates, foldVars>>

\* Lines 150-173: one iteration of the loop over the lines.
ScanLine ==
    /\ pc = "scan"
    /\ line_num <= Len(CurrentLines)
    /\ LET line == CurrentLines[line_num]
       IN  IF IsFenceLine(line)
           THEN /\ in_code_block' = ~in_code_block
                /\ UNCHANGED <<links, positions>>
           ELSE IF in_code_block
           THEN UNCHANGED <<in_code_block, links, positions>>
           ELSE /\ links' = links \o LineLinks(line, line_num)
                /\ positions' = positions \o LinePositions(line, line_num)
                /\ UNCHANGED in_code_block
    /\ line_num' = line_num + 1
    /\ UNCHANGED <<fs, pc, md_files, file_idx, link_idx, all_link_results,
                   total_links, valid_links, invalid_links, missing_anchors,
                   external_unreachable, report, exit_code, candidates, foldVars>>

\* Line 177, 231: the scan is over and the links are returned to main.
ScanDone ==
    /\ pc = "scan"
    /\ line_num > Len(CurrentLines)
    /\ candidates' = candidates \o
          [i \in 1..Len(links) |->
              [file |-> md_files[file_idx], line_num |-> links[i].line_num,
               text |-> links[i].text, target |-> links[i].target]]
    /\ link_idx' = 1
    /\ pc' = "validate"
    /\ UNCHANGED <<fs, md_files, file_idx, line_num, in_code_block, links,
                   all_link_results, total_links, valid_links, invalid_links,
                   missing_anchors, external_unreachable, report, exit_code,
                   positions, foldVars>>

\* The variant that records only the links that are not valid.
ValidateLink_drop_valid ==
    /\ pc = "validate"
    /\ link_idx <= Len(links)
    /\ LET link == links[link_idx]
           result == validate_link(md_files[file_idx], link.line_num, link.text,
                                   link.target)
       IN  /\ all_link_results' = IF result.status = "valid" THEN all_link_results
                                  ELSE Append(all_link_results, result)
           /\ valid_links' = valid_links + (IF result.status = "valid" THEN 1 ELSE 0)
           /\ invalid_links' = invalid_links + (IF result.status = "invalid" THEN 1 ELSE 0)
           /\ missing_anchors' =
                 missing_anchors + (IF result.status = "missing-anchor" THEN 1 ELSE 0)
           /\ external_unreachable' =
                 external_unreachable
                   + (IF result.status = "external-unreachable" THEN 1 ELSE 0)
    /\ total_links' = total_links + 1
    /\ link_idx' = link_idx + 1
    /\ UNCHANGED <<fs, pc, md_files, file_idx, line_num, in_code_block, links,
                   report, exit_code, candidates, positions, foldVars>>

\* The variant that counts a missing anchor as an invalid link.
ValidateLink_miscount ==
    /\ pc = "validate"
    /\ link_idx <= Len(links)
    /\ LET link == links[link_idx]
           result == validate_link(md_files[file_idx], link.line_num, link.text,
                                   link.target)
       IN  /\ all_link_results' = Append(all_link_results, result)
           /\ valid_links' = valid_links + (IF result.status = "valid" THEN 1 ELSE 0)
           /\ invalid_links' =
                 invalid_links
                   + (IF result.status \in {"invalid", "missing-anchor"} THEN 1 ELSE 0)
           /\ UNCHANGED missing_anchors
           /\ external_unreachable' =
                 external_unreachable
                   + (IF result.status = "external-unreachable" THEN 1 ELSE 0)
    /\ total_links' = total_links + 1
    /\ link_idx' = link_idx + 1
    /\ UNCHANGED <<fs, pc, md_files, file_idx, line_num, in_code_block, links,
                   report, exit_code, candidates, positions, foldVars>>

\* Lines 233-248: one iteration of the loop over the links of a document.
ValidateLink ==
    /\ pc = "validate"
    /\ link_idx <= Len(links)
    /\ LET link == links[link_idx]
           result == validate_link(md_files[file_idx], link.line_num, link.text,
                                   link.target)
       IN  /\ all_link_results' = Append(all_link_results, result)
           /\ valid_links' = valid_links + (IF result.status = "valid" THEN 1 ELSE 0)
           /\ invalid_links' = invalid_links + (IF result.status = "invalid" THEN 1 ELSE 0)
           /\ missing_anchors' =
                 missing_anchors + (IF result.status = "missing-anchor" THEN 1 ELSE 0)
           /\ external_unreachable' =
                 external_unreachable
                   + (IF result.status = "external-unreachable" THEN 1 ELSE 0)
    /\ total_links' = total_links + 1
    /\ link_idx' = link_idx + 1
    /\ UNCHANGED <<fs, pc, md_files, file_idx, line_num, in_code_block, links,
                   report, exit_code, candidates, positions, foldVars>>

\* Lines 233, 227: the links of the document are exhausted; on to the next.
FileDone ==
    /\ pc = "validate"
    /\ link_idx > Len(links)
    /\ file_idx' = file_idx + 1
    /\ pc' = "next_file"
    /\ UNCHANGED <<fs, md_files, line_num, in_code_block, links, link_idx,
                   all_link_results, total_links, valid_links, invalid_links,
                   missing_anchors, external_unreachable, report, exit_code,
                   candidates, positions, foldVars>>

\* The variant whose exit status overlooks the missing anchors.
WriteReport_overlook_anchors ==
    /\ pc = "report"
    /\ report' = Report(all_link_results)
    /\ LET broken_count == invalid_links + external_unreachable
       IN  exit_code' = IF broken_count = 0 THEN "success" ELSE "failure"
    /\ pc' = "done"
    /\ UNCHANGED <<fs, md_files, file_idx, line_num, in_code_block, links, link_idx,
                   all_link_results, total_links, valid_links, invalid_links,
                   missing_anchors, external_unreachable, candidates, positions,
                   foldVars>>

\* Lines 257-292: the report is written and the exit status decided.
WriteReport ==
    /\ pc = "report"
    /\ report' = Report(all_link_results)
    /\ LET broken_count == invalid_links + missing_anchors + external_unreachable
       IN  exit_code' = IF broken_count = 0 THEN "success" ELSE "failure"
    /\ pc' = "done"
    /\ UNCHANGED <<fs, md_files, file_idx, line_num, in_code_block, links, link_idx,
                   all_link_results, total_links, valid_links, invalid_links,
                   missing_anchors, external_unreachable, candidates, positions,
                   foldVars>>

Next ==
    \/ MissingRoot
    \/ NoMarkdownFiles
    \/ GlobFiles
    \/ OpenFile
    \/ OpenFileError
    \/ AllFilesDone
    \/ ScanLine
    \/ ScanDone
    \/ ValidateLink
    \/ FileDone
    \/ WriteReport

Spec == Init /\ [][Next]_vars

---------------------------------------------------------------------------
(* The anchor folder on its own: generate_github_anchor applied to a heading, *)
(* then to its own result                                                     *)

\* The characters the headings are drawn from: a capital, a small letter, a
\* digit, two kinds of whitespace, the hyphen and a punctuation mark.
FoldAlphabet == {"A", "b", "7", " ", "\t", "-", "+"}

RECURSIVE StringsUpTo(_)
StringsUpTo(n) ==
    IF n = 0 THEN {<<>>}
    ELSE LET shorter == StringsUpTo(n - 1)
         IN  shorter \cup {Append(t, c) : t \in shorter, c \in FoldAlphabet}

\* "Hello, World!"
H_hello ==
    <<"H","e","l","l","o",","," ","W","o","r","l","d","!">>

\* "  Multiple   Spaces  "
H_spaces ==
    <<" "," ","M","u","l","t","i","p","l","e"," "," "," ","S","p","a","c","e","s"," "," ">>

\* "C++ & Rust"
H_rust ==
    <<"C","+","+"," ","&"," ","R","u","s","t">>

HeadingInputs == StringsUpTo(MaxHeadingLen) \cup {H_hello, H_spaces, H_rust}

InitFold ==
    /\ fs = OutsideRoot
    /\ pc = "idle"
    /\ md_files = <<>>
    /\ file_idx = 0
    /\ line_num = 0
    /\ in_code_block = FALSE
    /\ links = <<>>
    /\ link_idx = 0
    /\ all_link_results = <<>>
    /\ total_links = 0
    /\ valid_links = 0
    /\ invalid_links = 0
    /\ missing_anchors = 0
    /\ external_unreachable = 0
    /\ report = NoReport
    /\ exit_code = "running"
    /\ candidates = <<>>
    /\ positions = <<>>
    /\ heading \in HeadingInputs
    /\ anchor = <<>>
    /\ anchor2 = <<>>
    /\ fold_pc = "input"

\* generate_github_anchor(heading)
Fold ==
    /\ fold_pc = "input"
    /\ anchor' = generate_github_anchor(heading)
    /\ fold_pc' = "folded"
    /\ UNCHANGED <<mainVars, heading, anchor2>>

\* generate_github_anchor applied to its own result
FoldAgain ==
    /\ fold_pc = "folded"
    /\ anchor2' = generate_github_anchor(anchor)
    /\ fold_pc' = "refolded"
    /\ UNCHANGED <<mainVars, heading, anchor>>

NextFold == Fold \/ FoldAgain

SpecFold == InitFold /\ [][NextFold]_vars

---------------------------------------------------------------------------
(* Claims about the anchor folder (checked under SpecFold) *)

\* C6: generate_github_anchor is idempotent: folding the fold of a heading
\* gives the fold of the heading back.
C6_FoldIdempotent ==
    fold_pc = "refolded" => anchor2 = anchor

\* A run that folded "  Multiple   Spaces  " twice, the heading itself not
\* being a fixed point.
C6_Witness ==
    /\ fold_pc = "refolded"
    /\ heading = H_spaces
    /\ anchor # heading
    /\ anchor2 = <<"m","u","l","t","i","p","l","e","-","s","p","a","c","e","s">>

\* C7: the anchor is the heading lowercased, stripped of every character that
\* is not a lowercase letter, a digit, whitespace or a hyphen, with each
\* whitespace run and then each hyphen run made one hyphen, and the hyphens at
\* both ends trimmed.  Said without the steps: the characters kept from the
\* lowercased heading, cut into words at the runs of whitespace and hyphens,
\* are the words of the anchor, joined by single hyphens.  The spec's three
\* examples and the empty heading give the stated anchors.
C7_FoldIsThePipeline ==
    fold_pc # "input" =>
        LET low == [i \in 1..Len(heading) |->
                       IF \E k \in 1..26 : UpperLetters[k] = heading[i]
                       THEN LowerLetters[CHOOSE k \in 1..26 : UpperLetters[k] = heading[i]]
                       ELSE heading[i]]
            isWord(c) == c \in LowerSet \cup Digits
            isSep(c) == c \in {" ", "\t", "-"}
            kept == SelectSeq(low, LAMBDA c : isWord(c) \/ isSep(c))
            \* the positions where a word of kept starts, and where it ends
            starts == {i \in 1..Len(kept) :
                          isWord(kept[i]) /\ (i = 1 \/ isSep(kept[i - 1]))}
            endOf(i) == CHOOSE j \in i..Len(kept) :
                            /\ \A m \in i..j : isWord(kept[m])
                            /\ (j = Len(kept) \/ isSep(kept[j + 1]))
            anchorStarts == {i \in 1..Len(anchor) :
                                anchor[i] # "-" /\ (i = 1 \/ anchor[i - 1] = "-")}
            anchorEndOf(i) == CHOOSE j \in i..Len(anchor) :
                                  /\ \A m \in i..j : anchor[m] # "-"
                                  /\ (j = Len(anchor) \/ anchor[j + 1] = "-")
            nth(S, n) == CHOOSE i \in S : Cardinality({j \in S : j < i}) = n - 1
        IN  /\ \A i \in 1..Len(anchor) : isWord(anchor[i]) \/ anchor[i] = "-"
            /\ anchor # <<>> => anchor[1] # "-" /\ anchor[Len(anchor)] # "-"
            /\ \A i \in 1..(Len(anchor) - 1) : ~(anchor[i] = "-" /\ anchor[i + 1] = "-")
            /\ Cardinality(anchorStarts) = Cardinality(starts)
            /\ \A n \in 1..Cardinality(starts) :
                   SubSeq(anchor, nth(anchorStarts, n), anchorEndOf(nth(anchorStarts, n)))
                     = SubSeq(kept, nth(starts, n), endOf(nth(starts, n)))
            /\ heading = H_hello =>
                   anchor = <<"h","e","l","l","o","-","w","o","r","l","d">>
            /\ heading = H_spaces =>
                   anchor = <<"m","u","l","t","i","p","l","e","-","s","p","a","c","e","s">>
            /\ heading = H_rust => anchor = <<"c","-","r","u","s","t">>
            /\ heading = <<>> => anchor = <<>>

\* A run that folded "C++ & Rust" into "c-rust".
C7_Witness ==
    /\ fold_pc = "folded"
    /\ heading = H_rust
    /\ anchor = <<"c","-","r","u","s","t">>

---------------------------------------------------------------------------
(* Claims about a run of main (checked under Spec) *)

\* C1: an anchor-only link (target starting with '#') is 'valid' exactly when
\* some '#'-marked line of its own source document has a heading text that
\* folds to the target without its '#'; otherwise it is 'missing-anchor'.
C1_AnchorOnlyLinks ==
    \A i \in 1..Len(all_link_results) :
        LET r == all_link_results[i]
            name == SubSeq(r.link, 2, Len(r.link))
            doc == fs[r.file].content
            matched == \E n \in 1..Len(doc) :
                          /\ StartsWith(Strip(doc[n]), <<"#">>)
                          /\ HeadingText(doc[n]) # <<>>
                          /\ generate_github_anchor(HeadingText(doc[n])) = name
        IN  (Len(r.link) > 0 /\ r.link[1] = "#") =>
                /\ r.status \in {"valid", "missing-anchor"}
                /\ r.status = "valid" <=> matched

\* A finished run in which "#intro" was 'valid' in A, which has "## Intro",
\* and 'missing-anchor' in B, which has not.
C1_Witness ==
    /\ pc = "done"
    /\ \E i, j \in 1..Len(all_link_results) :
          /\ all_link_results[i].file = P_A
          /\ all_link_results[i].link = <<"#","i","n","t","r","o">>
          /\ all_link_results[i].status = "valid"
          /\ all_link_results[j].file = P_B
          /\ all_link_results[j].link = <<"#","i","n","t","r","o">>
          /\ all_link_results[j].status = "missing-anchor"

\* C2: no extracted link starts on a line that lies strictly between a fence
\* line that opens a block and the fence line that closes it, the fence lines
\* of a document pairing up in order.
C2_NoLinkInsideFence ==
    \A i \in 1..Len(positions) :
        LET doc == fs[md_files[positions[i].doc]].content
            n == positions[i].line_num
            fencesBefore == {m \in 1..(n - 1) : StartsWith(Strip(doc[m]), S_fence)}
            fencesAfter == {m \in (n + 1)..Len(doc) : StartsWith(Strip(doc[m]), S_fence)}
        IN  ~(/\ ~StartsWith(Strip(doc[n]), S_fence)
              /\ Cardinality(fencesBefore) % 2 = 1
              /\ fencesAfter # {})

\* A finished run over a document whose only link sits between two fences.
C2_Witness ==
    /\ pc = "done"
    /\ P_A \in DOMAIN fs
    /\ fs[P_A].content = <<L_fence, L_anchor_link, L_fence>>
    /\ report # NoReport
    /\ report.links = <<>>

\* C3: the results are, one for one and in the same order, the links the
\* extractor returned (none dropped, doubled or moved); and the extractor
\* returns them in scan order: document after document as processed, line
\* after line, and left to right within a line, each being the link text and
\* target that stand at that place of the document.
C3_OneResultPerCandidateInScanOrder ==
    LET validated == IF pc = "validate" /\ link_idx > 0
                     THEN Len(candidates) - Len(links) + link_idx - 1
                     ELSE Len(candidates)
        before(p, q) == \/ p.doc < q.doc
                        \/ p.doc = q.doc /\ p.line_num < q.line_num
                        \/ p.doc = q.doc /\ p.line_num = q.line_num /\ p.col < q.col
    IN  /\ Len(all_link_results) = validated
        /\ total_links = validated
        /\ \A i \in 1..Len(all_link_results) :
              /\ all_link_results[i].file = candidates[i].file
              /\ all_link_results[i].line = candidates[i].line_num
              /\ all_link_results[i].text = candidates[i].text
              /\ all_link_results[i].link = candidates[i].target
        /\ Len(positions) = Len(candidates) + (IF pc = "scan" THEN Len(links) ELSE 0)
        /\ \A i \in 1..(Len(positions) - 1) : before(positions[i], positions[i + 1])
        /\ \A i \in 1..Len(candidates) :
              LET c == candidates[i]
                  p == positions[i]
                  written == <<"[">> \o c.text \o <<"]", "(">> \o c.target \o <<")">>
                  line == fs[c.file].content[p.line_num]
              IN  /\ c.file = md_files[p.doc]
                  /\ c.line_num = p.line_num
                  /\ SubSeq(line, p.col, p.col + Len(written) - 1) = written
        /\ pc = "done" /\ report # NoReport => report.links = all_link_results

\* A finished run over two documents that both gave links, one line giving
\* several.
C3_Witness ==
    /\ pc = "done"
    /\ Len(all_link_results) >= 4
    /\ \E i, j \in 1..Len(all_link_results) :
          /\ all_link_results[i].file # all_link_results[j].file
    /\ \E i \in 1..(Len(positions) - 1) :
          /\ positions[i].doc = positions[i + 1].doc
          /\ positions[i].line_num = positions[i + 1].line_num

\* C4: a relative-file link (target starting with './', or with at most one
\* '/', and neither an http(s) URL nor an anchor) whose file part, joined to
\* the document root, does not exist is 'valid' when the file part ends with
\* an image extension, and otherwise 'invalid' with the suggestion that names
\* the missing file part.
C4_MissingFile ==
    \A i \in 1..Len(all_link_results) :
        LET r == all_link_results[i]
            t == r.link
            hash == IndexFrom(t, "#", 1)
            beforeHash == IF hash = 0 THEN t ELSE SubSeq(t, 1, hash - 1)
            part == IF StartsWith(beforeHash, <<".", "/">>)
                    THEN SubSeq(beforeHash, 3, Len(beforeHash)) ELSE beforeHash
            relative == /\ ~StartsWith(t, S_http) /\ ~StartsWith(t, S_https)
                        /\ ~StartsWith(t, <<"#">>)
                        /\ StartsWith(t, <<".", "/">>) \/ Count(t, "/") <= 1
            image == \E ext \in { <<".","s","v","g">>, <<".","p","n","g">>,
                                  <<".","j","p","g">>, <<".","j","p","e","g">>,
                                  <<".","g","i","f">>, <<".","w","e","b","p">> } :
                         EndsWith(part, ext)
        IN  (relative /\ PathJoin(part) \notin DOMAIN fs) =>
                IF image
                THEN r.status = "valid"
                ELSE /\ r.status = "invalid"
                     /\ r.suggestion = FileNotFound(part)

\* A finished run with './d.png' found 'valid' and './missing.md' found
\* 'invalid', neither file existing.
C4_Witness ==
    /\ pc = "done"
    /\ \E i, j \in 1..Len(all_link_results) :
          /\ all_link_results[i].link = <<".","/","d",".","p","n","g">>
          /\ all_link_results[i].status = "valid"
          /\ all_link_results[j].link = <<".","/","m","i","s","s","i","n","g",".","m","d">>
          /\ all_link_results[j].status = "invalid"
          /\ all_link_results[j].suggestion.kind = "file-not-found"

\* C5: a relative-file link whose file part, joined to the document root,
\* exists: with a non-empty anchor it is 'valid' exactly when a '#'-marked
\* line of the target file (among the lines extract_headings gets to read)
\* folds to the anchor, and 'missing-anchor' otherwise; with no anchor it is
\* 'valid'.  And
\* the run over A = ("## Intro", "[See Intro](#intro)",
\* "[Other](./B.md#missing)") and B = ("## Section One") ends with exactly two
\* results, both for A, for lines 2 and 3, 'valid' then 'missing-anchor'.
C5_ExistingFile ==
    /\ \A i \in 1..Len(all_link_results) :
          LET r == all_link_results[i]
              t == r.link
              hash == IndexFrom(t, "#", 1)
              beforeHash == IF hash = 0 THEN t ELSE SubSeq(t, 1, hash - 1)
              name == IF hash = 0 THEN <<>> ELSE SubSeq(t, hash + 1, Len(t))
              part == IF StartsWith(beforeHash, <<".", "/">>)
                      THEN SubSeq(beforeHash, 3, Len(beforeHash)) ELSE beforeHash
              relative == /\ ~StartsWith(t, S_http) /\ ~StartsWith(t, S_https)
                          /\ ~StartsWith(t, <<"#">>)
                          /\ StartsWith(t, <<".", "/">>) \/ Count(t, "/") <= 1
              target == PathJoin(part)
              doc == IF fs[target].kind = "file"
                     THEN SubSeq(fs[target].content, 1, fs[target].decoded)
                     ELSE <<>>
              matched == \E n \in 1..Len(doc) :
                            /\ StartsWith(Strip(doc[n]), <<"#">>)
                            /\ HeadingText(doc[n]) # <<>>
                            /\ generate_github_anchor(HeadingText(doc[n])) = name
          IN  (relative /\ target \in DOMAIN fs) =>
                  IF name # <<>>
                  THEN /\ r.status \in {"valid", "missing-anchor"}
                       /\ r.status = "valid" <=> matched
                  ELSE r.status = "valid"
    /\ ( /\ pc = "done"
         /\ DOMAIN fs = {P_etc, S_blueprint, P_A, P_B}
         /\ fs[P_A] = File(<<L_heading, L_anchor_link, L_other>>, TRUE)
         /\ fs[P_B] = File(<<L_section>>, TRUE) )
       => /\ Len(all_link_results) = 2
          /\ all_link_results[1].file = P_A /\ all_link_results[2].file = P_A
          /\ all_link_results[1].line = 2 /\ all_link_results[2].line = 3
          /\ all_link_results[1].status = "valid"
          /\ all_link_results[2].status = "missing-anchor"

\* The scenario's run, finished.
C5_Witness ==
    /\ pc = "done"
    /\ P_B \in DOMAIN fs
    /\ fs[P_A] = File(<<L_heading, L_anchor_link, L_other>>, TRUE)
    /\ fs[P_B] = File(<<L_section>>, TRUE)
    /\ Len(all_link_results) = 2

\* C8: every link whose target is an absolute path, a mailto-style target or
\* a multi-segment relative path without the './' prefix is 'invalid' with
\* the fixed suggestion "Link format not supported. ...", whatever the file
\* system holds.
C8_UnsupportedShapes ==
    \A i \in 1..Len(all_link_results) :
        LET r == all_link_results[i]
            t == r.link
            absolute == StartsWith(t, <<"/">>)
            mailto == StartsWith(t, <<"m","a","i","l","t","o",":">>)
            multiSegment == /\ Count(t, "/") >= 2
                            /\ ~StartsWith(t, <<".", "/">>)
                            /\ ~StartsWith(t, S_http)
                            /\ ~StartsWith(t, S_https)
                            /\ ~StartsWith(t, <<"#">>)
        IN  (absolute \/ mailto \/ multiSegment) =>
                /\ r.status = "invalid"
                /\ r.suggestion = FormatNotSupported

\* C9: no extracted link starts on a line, outside any fenced block, whose raw
\* text begins with four or more spaces.
C9_IndentedLinesGiveNoLinks ==
    \A i \in 1..Len(positions) :
        LET line == fs[md_files[positions[i].doc]].content[positions[i].line_num]
        IN  ~StartsWith(line, <<" ", " ", " ", " ">>)

\* extract_links_from_file on a document scanned alone: the links of the
\* lines from n on, the scan being inside a fenced block or not.
RECURSIVE LinksFrom(_, _, _)
LinksFrom(doc, n, inside) ==
    IF n > Len(doc) THEN <<>>
    ELSE IF IsFenceLine(doc[n]) THEN LinksFrom(doc, n + 1, ~inside)
    ELSE IF inside THEN LinksFrom(doc, n + 1, inside)
    ELSE LineLinks(doc[n], n) \o LinksFrom(doc, n + 1, inside)

\* C10: the scan of every document starts outside any fenced block, and the
\* links it returns are those of the document scanned alone, whatever the
\* documents before it held (an unclosed fence included).
C10_FenceStateIsPerDocument ==
    /\ (pc = "scan" /\ line_num = 1) => ~in_code_block
    /\ (pc = "validate" /\ Readable(md_files[file_idx])) =>
           links = LinksFrom(CurrentLines, 1, FALSE)

\* The second document of a run gave links although the first one ended
\* inside an unclosed fence.
C10_Witness ==
    /\ pc = "validate"
    /\ file_idx = 2
    /\ links # <<>>
    /\ LET first == fs[md_files[1]].content
       IN  /\ Readable(md_files[1])
           /\ Cardinality({n \in 1..Len(first) : IsFenceLine(first[n])}) % 2 = 1

\* C11: when the target file of a relative link with an anchor exists but
\* its reading fails while the headings are extracted, extract_headings gives
\* the empty list and the link is 'missing-anchor'; the failure stops nothing:
\* every link extracted has its result once the run is done.
C11_UnreadableTargetHasNoHeadings ==
    /\ \A i \in 1..Len(all_link_results) :
          LET r == all_link_results[i]
              t == r.link
              hash == IndexFrom(t, "#", 1)
              beforeHash == IF hash = 0 THEN t ELSE SubSeq(t, 1, hash - 1)
              name == IF hash = 0 THEN <<>> ELSE SubSeq(t, hash + 1, Len(t))
              part == IF StartsWith(beforeHash, <<".", "/">>)
                      THEN SubSeq(beforeHash, 3, Len(beforeHash)) ELSE beforeHash
              relative == /\ ~StartsWith(t, S_http) /\ ~StartsWith(t, S_https)
                          /\ ~StartsWith(t, <<"#">>)
                          /\ StartsWith(t, <<".", "/">>) \/ Count(t, "/") <= 1
              target == PathJoin(part)
          IN  ( /\ relative
                /\ name # <<>>
                /\ target \in DOMAIN fs
                /\ fs[target].kind = "file"
                /\ ~fs[target].readable )
              => /\ extract_headings(target) = <<>>
                 /\ r.status = "missing-anchor"
    /\ pc = "done" => Len(all_link_results) = Len(candidates)

\* C12: a source document that cannot be read gives no candidate and no
\* result; the run is not aborted (the report is written); and the results of
\* the other documents are those they would have were the unreadable document
\* empty: a link into it is 'missing-anchor' when it names an anchor and
\* 'valid' when it names none.
C12_UnreadableDocumentCountsAsEmpty ==
    /\ \A i \in 1..Len(candidates) : Readable(candidates[i].file)
    /\ \A i \in 1..Len(all_link_results) : Readable(all_link_results[i].file)
    /\ (pc = "done" /\ Exists(S_blueprint)) => report # NoReport
    /\ \A i \in 1..Len(all_link_results) :
          LET r == all_link_results[i]
              t == r.link
              hash == IndexFrom(t, "#", 1)
              beforeHash == IF hash = 0 THEN t ELSE SubSeq(t, 1, hash - 1)
              name == IF hash = 0 THEN <<>> ELSE SubSeq(t, hash + 1, Len(t))
              part == IF StartsWith(beforeHash, <<".", "/">>)
                      THEN SubSeq(beforeHash, 3, Len(beforeHash)) ELSE beforeHash
              relative == /\ ~StartsWith(t, S_http) /\ ~StartsWith(t, S_https)
                          /\ ~StartsWith(t, <<"#">>)
                          /\ StartsWith(t, <<".", "/">>) \/ Count(t, "/") <= 1
              target == PathJoin(part)
          IN  ( /\ relative
                /\ target \in Glob
                /\ ~Readable(target) )
              => r.status = IF name # <<>> THEN "missing-anchor" ELSE "valid"

\* C13: a run over an existing document root ends with success exactly when
\* no result is 'invalid', 'missing-anchor' or 'external-unreachable' (the run
\* that finds no markdown file included), with failure otherwise, and its
\* report is written; a run whose root does not exist ends with failure with
\* no document listed or scanned, no link validated and no report written.
\* No exit status is set before the run ends.
C13_ExitStatus ==
    LET broken == {i \in 1..Len(all_link_results) :
                      all_link_results[i].status
                          \in {"invalid", "missing-anchor", "external-unreachable"}}
    IN  /\ pc # "done" => exit_code = "running"
        /\ (pc = "done" /\ Exists(S_blueprint)) =>
               /\ exit_code \in {"success", "failure"}
               /\ exit_code = "success" <=> broken = {}
               /\ report # NoReport
               /\ Glob = {} => exit_code = "success"
        /\ (pc = "done" /\ ~Exists(S_blueprint)) =>
               /\ exit_code = "failure"
               /\ report = NoReport
               /\ md_files = <<>>
               /\ candidates = <<>>
               /\ positions = <<>>
               /\ all_link_results = <<>>

\* A run over an existing root that ended in failure with no 'invalid'
\* result, a 'missing-anchor' beside a 'valid' one.
C13_Witness ==
    /\ pc = "done"
    /\ Exists(S_blueprint)
    /\ exit_code = "failure"
    /\ report # NoReport
    /\ \A i \in 1..Len(all_link_results) :
          all_link_results[i].status \in {"valid", "missing-anchor"}
    /\ \E i, j \in 1..Len(all_link_results) :
          /\ all_link_results[i].status = "valid"
          /\ all_link_results[j].status = "missing-anchor"

\* C14: the headings of a document are taken from every line whose stripped
\* form starts with '#' and has text left after the '#' run, the lines inside
\* a fenced code block included.  So an anchor-only link whose anchor is the
\* fold of such a line inside a fence is 'valid', while no extracted link
\* starts on a line inside a fence.
C14_HeadingsIgnoreFences ==
    LET isHeading(l) == StartsWith(Strip(l), <<"#">>) /\ HeadingText(l) # <<>>
        inFence(doc, n) ==
            Cardinality({m \in 1..(n - 1) : StartsWith(Strip(doc[m]), S_fence)}) % 2 = 1
    IN  /\ \A p \in DOMAIN fs :
              Readable(p) =>
                  \A n \in 1..Len(fs[p].content) :
                      isHeading(fs[p].content[n]) =>
                          \E k \in 1..Len(extract_headings(p)) :
                              extract_headings(p)[k] = HeadingText(fs[p].content[n])
        /\ \A i \in 1..Len(all_link_results) :
              LET r == all_link_results[i]
                  doc == fs[r.file].content
                  name == SubSeq(r.link, 2, Len(r.link))
              IN  ( /\ Len(r.link) > 0 /\ r.link[1] = "#"
                    /\ \E n \in 1..Len(doc) :
                          /\ inFence(doc, n)
                          /\ isHeading(doc[n])
                          /\ generate_github_anchor(HeadingText(doc[n])) = name )
                  => r.status = "valid"
        /\ \A i \in 1..Len(positions) :
              LET doc == fs[md_files[positions[i].doc]].content
                  n == positions[i].line_num
              IN  ~(inFence(doc, n) /\ isHeading(doc[n]))

\* A finished run over the document with "# Q [w](#intro)" between two fences
\* and "[q](#q-wintro)" after them: the one result is that of the link after
\* the fences, and it is 'valid'.
C14_Witness ==
    /\ pc = "done"
    /\ DOMAIN fs = {P_etc, S_blueprint, P_A}
    /\ fs[P_A].content = <<L_fence, L_fenced_heading, L_fence, L_link_q>>
    /\ Len(all_link_results) = 1
    /\ all_link_results[1].link = <<"#","q","-","w","i","n","t","r","o">>
    /\ all_link_results[1].line = 4
    /\ all_link_results[1].status = "valid"

\* C15: at every point of a run, total_links is the number of results so far
\* and the sum of the four counters; each counter is the number of results
\* so far with its status; and external_unreachable is 0, no result having
\* the status 'external-unreachable'.  The report written carries the same
\* counters.
C15_CountersMatchResults ==
    LET count(status) == Cardinality({i \in 1..Len(all_link_results) :
                                         all_link_results[i].status = status})
    IN  /\ total_links = Len(all_link_results)
        /\ total_links = valid_links + invalid_links + missing_anchors
                             + external_unreachable
        /\ valid_links = count("valid")
        /\ invalid_links = count("invalid")
        /\ missing_anchors = count("missing-anchor")
        /\ external_unreachable = count("external-unreachable")
        /\ external_unreachable = 0
        /\ \A i \in 1..Len(all_link_results) :
              all_link_results[i].status \in {"valid", "invalid", "missing-anchor"}
        /\ report # NoReport =>
               /\ report.total_links = Len(report.links)
               /\ report.valid_links = valid_links
               /\ report.invalid_links = invalid_links
               /\ report.missing_anchors = missing_anchors
               /\ report.external_unreachable = 0

\* In the middle of a document's links, with links of each of the three
\* statuses processed and more to come.
C15_Witness ==
    /\ pc = "validate"
    /\ link_idx > 1
    /\ link_idx <= Len(links)
    /\ valid_links > 0
    /\ invalid_links > 0
    /\ missing_anchors > 0
    /\ total_links = valid_links + invalid_links + missing_anchors

====
